---- MODULE Spec2Model ----
(***************************************************************************)
(* The OpenVPN AS exporter (exporters/openvpnas_exporter.go): the          *)
(* descriptor registry built by NewOpenVPNExporter and the collection      *)
(* cycle run by OpenVPNExporter.Collect, with any number of Collect        *)
(* invocations running at once against a remote XML-RPC endpoint.          *)
(***************************************************************************)
EXTENDS Integers, Sequences, FiniteSets, TLC

\* Number of Collect invocations (scrapes) a behaviour may start.
NumCycles == 2
\* Largest n_clients the remote endpoint reports.
MaxClients == 1

Cycles == 1..NumCycles

\* A nil *xmlrpc.Client (what NewClient returns together with an error).
NoClient == 0

VARIABLES
    e,        \* the *OpenVPNExporter returned by NewOpenVPNExporter
    newErr,   \* the error returned by NewOpenVPNExporter
    pc,       \* pc[c]: where Collect invocation c stands
    client,   \* client[c]: the client of invocation c (NoClient: nil)
    err,      \* err[c]: the variable err of invocation c
    ch,       \* ch[c]: the metrics invocation c has sent on its channel
    calls,    \* calls[c]: the RPC methods invocation c has called, in order
    replies,  \* replies[c]: what the endpoint answered to each of them
    opened,   \* opened[h]: how many times client h was constructed
    closed,   \* closed[h]: how many times client h was closed
    described, \* whether Describe has been called
    descCh    \* the descriptors the latest Describe call sent on its channel

vars == <<e, newErr, pc, client, err, ch, calls, replies, opened, closed,
          described, descCh>>

----------------------------------------------------------------------------
\* The descriptor registry

\* prometheus.BuildFQName: the non-empty parts joined by "_"; "" when the
\* name is empty.
BuildFQName(namespace, subsystem, name) ==
    IF name = "" THEN ""
    ELSE IF namespace # "" /\ subsystem # ""
         THEN namespace \o "_" \o subsystem \o "_" \o name
    ELSE IF namespace # "" THEN namespace \o "_" \o name
    ELSE IF subsystem # "" THEN subsystem \o "_" \o name
    ELSE name

\* prometheus.NewDesc(fqName, help, nil, nil)
NewDesc(fqName, help) ==
    [fqName |-> fqName, help |-> help,
     variableLabels |-> <<>>, constLabels |-> <<>>]

\* A construction that builds two descriptors under one name.
NewOpenVPNExporterDuplicateName(xmlrpcPath) ==
    [exporter |->
       [xmlrpcPath |-> xmlrpcPath,
        openvpnUpDesc |->
            NewDesc(BuildFQName("openvpnas", "", "up"),
                    "Whether scraping OpenVPN's metrics was successful."),
        openvpnStatusUpdateTimeDesc |->
            NewDesc(BuildFQName("openvpnas", "", "status_update_time_seconds"),
                    "UNIX timestamp at which the OpenVPN statistics were updated."),
        openvpnConnectedClientsDesc |->
            NewDesc(BuildFQName("openvpnas", "", "server_connected_clients"),
                    "Number Of Connected Clients"),
        openvpnSubscriptionStatusUpdateTimeDesc |->
            NewDesc(BuildFQName("openvpnas", "", "status_update_time_seconds"),
                    "UNIX timestamp at which the OpenVPN subscription status was last updated."),
        openvpnSubscriptionCurrentClientConnections |->
            NewDesc(BuildFQName("openvpnas", "", "subscription_current_client_connections"),
                    "Number of client connections currently being used from the OpenVPN subscription."),
        openvpnSubscriptionFallbackClientConnections |->
            NewDesc(BuildFQName("openvpnas", "", "subscription_fallback_client_connections"),
                    "Number of fallback connections in use on the OpenVPN subscription."),
        openvpnSubscriptionMaximumClientConnections |->
            NewDesc(BuildFQName("openvpnas", "", "subscription_maximum_client_connections"),
                    "Maximum number of client connections allowed by the OpenVPN subscription.")],
     err |-> "nil"]

\* NewOpenVPNExporter: the exporter struct and the error it returns.
NewOpenVPNExporter(xmlrpcPath) ==
    [exporter |->
       [xmlrpcPath |-> xmlrpcPath,
        openvpnUpDesc |->
            NewDesc(BuildFQName("openvpnas", "", "up"),
                    "Whether scraping OpenVPN's metrics was successful."),
        openvpnStatusUpdateTimeDesc |->
            NewDesc(BuildFQName("openvpnas", "", "status_update_time_seconds"),
                    "UNIX timestamp at which the OpenVPN statistics were updated."),
        openvpnConnectedClientsDesc |->
            NewDesc(BuildFQName("openvpnas", "", "server_connected_clients"),
                    "Number Of Connected Clients"),
        openvpnSubscriptionStatusUpdateTimeDesc |->
            NewDesc(BuildFQName("openvpnas", "", "subscription_status_update_time_seconds"),
                    "UNIX timestamp at which the OpenVPN subscription status was last updated."),
        openvpnSubscriptionCurrentClientConnections |->
            NewDesc(BuildFQName("openvpnas", "", "subscription_current_client_connections"),
                    "Number of client connections currently being used from the OpenVPN subscription."),
        openvpnSubscriptionFallbackClientConnections |->
            NewDesc(BuildFQName("openvpnas", "", "subscription_fallback_client_connections"),
                    "Number of fallback connections in use on the OpenVPN subscription."),
        openvpnSubscriptionMaximumClientConnections |->
            NewDesc(BuildFQName("openvpnas", "", "subscription_maximum_client_connections"),
                    "Maximum number of client connections allowed by the OpenVPN subscription.")],
     err |-> "nil"]

\* The fields of OpenVPNExporter that hold a *prometheus.Desc.
DescFields == DOMAIN e \ {"xmlrpcPath"}

\* The socket paths the command line may hand to the constructor.
XmlrpcPaths == {"/usr/local/openvpn_as/etc/sock/sagent.localroot"}

----------------------------------------------------------------------------
\* Metrics

\* prometheus.GaugeValue
GaugeValue == "GaugeValue"

\* float64(i) of an int: exact for every |i| < 2^53, which covers every
\* integer of this model.
float64(i) == i

\* prometheus.MustNewConstMetric(desc, valueType, value)
MustNewConstMetric(desc, valueType, value) ==
    [desc |-> desc, valueType |-> valueType, value |-> value]

----------------------------------------------------------------------------
\* The remote endpoint

\* The ways client.Call fails: the endpoint is unreachable, the response
\* does not decode, the endpoint reports a fault.
ErrorKinds == {"ConnectionError", "DecodeError", "RemoteFault"}

\* What the endpoint may answer to GetVPNSummary; a failed call leaves the
\* result struct zero.
VPNSummaryReplies ==
    [fault : {"nil"}, n_clients : (0..MaxClients) \cup {7}]
    \cup [fault : ErrorKinds, n_clients : {0}]

\* The subscription states the endpoint may report.
SubscriptionStates ==
    { [last_successful_update |-> 1700000000, current_cc |-> 3,
       max_cc |-> 10, fallback_cc |-> 0],
      [last_successful_update |-> 0, current_cc |-> 0,
       max_cc |-> 0, fallback_cc |-> 0],
      [last_successful_update |-> 1700000060, current_cc |-> 10,
       max_cc |-> 3, fallback_cc |-> 7] }

\* What the endpoint may answer to GetSubscriptionStatus.
SubscriptionStatusReplies ==
    { [fault |-> "nil", last_successful_update |-> s.last_successful_update,
       current_cc |-> s.current_cc, max_cc |-> s.max_cc,
       fallback_cc |-> s.fallback_cc] : s \in SubscriptionStates }
    \cup [fault : ErrorKinds, last_successful_update : {0}, current_cc : {0},
          max_cc : {0}, fallback_cc : {0}]

\* A client shared by every invocation (one client kept for the exporter).
NewClientShared(c, fails) ==
    IF fails THEN [client |-> NoClient, err |-> "invalid endpoint url"]
    ELSE [client |-> 1, err |-> "nil"]

\* xmlrpc.NewClient as called by invocation c: a freshly allocated client,
\* named after the invocation that allocated it, or nil and an error.
NewClient(c, fails) ==
    IF fails THEN [client |-> NoClient, err |-> "invalid endpoint url"]
    ELSE [client |-> c, err |-> "nil"]

\* client.Call on client h when the endpoint's answer carries `fault`: a
\* client that was closed fails every call with rpc.ErrShutdown.
ClientCall(h, fault) ==
    IF closed[h] > 0 THEN "ErrShutdown" ELSE fault

----------------------------------------------------------------------------
\* The collection cycle

Init ==
    /\ \E p \in XmlrpcPaths :
          /\ e = NewOpenVPNExporter(p).exporter
          /\ newErr = NewOpenVPNExporter(p).err
    /\ pc = [c \in Cycles |-> "idle"]
    /\ client = [c \in Cycles |-> NoClient]
    /\ err = [c \in Cycles |-> "nil"]
    /\ ch = [c \in Cycles |-> <<>>]
    /\ calls = [c \in Cycles |-> <<>>]
    /\ replies = [c \in Cycles |-> <<>>]
    /\ opened = [h \in Cycles |-> 0]
    /\ closed = [h \in Cycles |-> 0]
    /\ described = FALSE
    /\ descCh = <<>>

\* An unrecovered panic in one goroutine ends the process.
Crashed == \E c \in Cycles : pc[c] = "panicked"

\* Collect up to the first call: the client is constructed (its error is
\* discarded) and its Close deferred; client.Close() and *client on a nil
\* client panic.
Collect(c) ==
    /\ ~Crashed
    /\ pc[c] = "idle"
    /\ \E fails \in BOOLEAN :
          LET r == NewClient(c, fails) IN
          /\ client' = [client EXCEPT ![c] = r.client]
          /\ IF r.client = NoClient
             THEN /\ pc' = [pc EXCEPT ![c] = "panicked"]
                  /\ UNCHANGED opened
             ELSE /\ pc' = [pc EXCEPT ![c] = "call1"]
                  /\ opened' = [opened EXCEPT ![r.client] = @ + 1]
    /\ UNCHANGED <<described, descCh, e, newErr, err, ch, calls, replies, closed>>

\* CollectVPNSummary issues client.Call("GetVPNSummary", nil, result).
CallGetVPNSummary(c) ==
    /\ ~Crashed
    /\ pc[c] = "call1"
    /\ calls' = [calls EXCEPT ![c] = Append(@, "GetVPNSummary")]
    /\ pc' = [pc EXCEPT ![c] = "wait1"]
    /\ UNCHANGED <<described, descCh, e, newErr, client, err, ch, replies, opened, closed>>

\* CollectVPNSummary with hidden state: the value depends on how many
\* invocations have already finished.
CollectVPNSummaryStateful(c, reply) ==
    LET callErr == ClientCall(client[c], reply.fault)
        finished == Cardinality({d \in Cycles : pc[d] = "done"}) IN
    IF callErr # "nil"
    THEN [err |-> callErr, sent |-> <<>>]
    ELSE [err |-> "nil",
          sent |-> << MustNewConstMetric(e.openvpnConnectedClientsDesc,
                          GaugeValue, float64(reply.n_clients + finished)) >>]

\* CollectVPNSummary once the call has returned: the error it returns and
\* the metrics it sends.
CollectVPNSummary(c, reply) ==
    LET callErr == ClientCall(client[c], reply.fault) IN
    IF callErr # "nil"
    THEN [err |-> callErr, sent |-> <<>>]
    ELSE [err |-> "nil",
          sent |-> << MustNewConstMetric(e.openvpnConnectedClientsDesc,
                          GaugeValue, float64(reply.n_clients)) >>]

\* Collect going on to the second call whatever the first returned.
AfterVPNSummaryNoReturn(callErr) == "call2"

\* Collect calling CollectVPNSummary again after a failure.
AfterVPNSummaryRetry(callErr) ==
    IF callErr # "nil" THEN "call1" ELSE "call2"

\* Collect after CollectVPNSummary: on an error it goes to send up = 0 and
\* return, otherwise on to CollectSubscriptionStatistics.
AfterVPNSummary(callErr) ==
    IF callErr # "nil" THEN "up" ELSE "call2"

ReturnGetVPNSummary(c) ==
    /\ ~Crashed
    /\ pc[c] = "wait1"
    /\ \E reply \in VPNSummaryReplies :
          LET r == CollectVPNSummary(c, reply) IN
          /\ replies' = [replies EXCEPT ![c] = Append(@, reply)]
          /\ err' = [err EXCEPT ![c] = r.err]
          /\ ch' = [ch EXCEPT ![c] = @ \o r.sent]
          /\ pc' = [pc EXCEPT ![c] = AfterVPNSummary(r.err)]
    /\ UNCHANGED <<described, descCh, e, newErr, client, calls, opened, closed>>

\* CollectSubscriptionStatistics issues
\* client.Call("GetSubscriptionStatus", nil, result).
CallGetSubscriptionStatus(c) ==
    /\ ~Crashed
    /\ pc[c] = "call2"
    /\ calls' = [calls EXCEPT ![c] = Append(@, "GetSubscriptionStatus")]
    /\ pc' = [pc EXCEPT ![c] = "wait2"]
    /\ UNCHANGED <<described, descCh, e, newErr, client, err, ch, replies, opened, closed>>

\* The four sends in another order: fallback before maximum.
SubscriptionMetricsReordered(reply) ==
    << MustNewConstMetric(e.openvpnSubscriptionStatusUpdateTimeDesc,
           GaugeValue, float64(reply.last_successful_update)),
       MustNewConstMetric(e.openvpnSubscriptionCurrentClientConnections,
           GaugeValue, float64(reply.current_cc)),
       MustNewConstMetric(e.openvpnSubscriptionFallbackClientConnections,
           GaugeValue, float64(reply.fallback_cc)),
       MustNewConstMetric(e.openvpnSubscriptionMaximumClientConnections,
           GaugeValue, float64(reply.max_cc)) >>

\* The four sends with two fields under each other's descriptor.
SubscriptionMetricsCrossed(reply) ==
    << MustNewConstMetric(e.openvpnSubscriptionStatusUpdateTimeDesc,
           GaugeValue, float64(reply.last_successful_update)),
       MustNewConstMetric(e.openvpnSubscriptionCurrentClientConnections,
           GaugeValue, float64(reply.current_cc)),
       MustNewConstMetric(e.openvpnSubscriptionMaximumClientConnections,
           GaugeValue, float64(reply.fallback_cc)),
       MustNewConstMetric(e.openvpnSubscriptionFallbackClientConnections,
           GaugeValue, float64(reply.max_cc)) >>

\* The four subscription metrics, built from a decoded result.
SubscriptionMetrics(reply) ==
    << MustNewConstMetric(e.openvpnSubscriptionStatusUpdateTimeDesc,
           GaugeValue, float64(reply.last_successful_update)),
       MustNewConstMetric(e.openvpnSubscriptionCurrentClientConnections,
           GaugeValue, float64(reply.current_cc)),
       MustNewConstMetric(e.openvpnSubscriptionMaximumClientConnections,
           GaugeValue, float64(reply.max_cc)),
       MustNewConstMetric(e.openvpnSubscriptionFallbackClientConnections,
           GaugeValue, float64(reply.fallback_cc)) >>

\* CollectSubscriptionStatistics without its last send.
CollectSubscriptionStatisticsThreeSends(c, reply) ==
    LET callErr == ClientCall(client[c], reply.fault) IN
    IF callErr # "nil"
    THEN [err |-> callErr, sent |-> <<>>]
    ELSE [err |-> "nil", sent |-> SubSeq(SubscriptionMetrics(reply), 1, 3)]

\* CollectSubscriptionStatistics sending before it looks at the error.
CollectSubscriptionStatisticsSendFirst(c, reply) ==
    LET callErr == ClientCall(client[c], reply.fault) IN
    [err |-> callErr, sent |-> SubscriptionMetrics(reply)]

\* CollectSubscriptionStatistics once the call has returned: the error it
\* returns and the metrics it sends.
CollectSubscriptionStatistics(c, reply) ==
    LET callErr == ClientCall(client[c], reply.fault) IN
    IF callErr # "nil"
    THEN [err |-> callErr, sent |-> <<>>]
    ELSE [err |-> "nil", sent |-> SubscriptionMetrics(reply)]

ReturnGetSubscriptionStatus(c) ==
    /\ ~Crashed
    /\ pc[c] = "wait2"
    /\ \E reply \in SubscriptionStatusReplies :
          LET r == CollectSubscriptionStatistics(c, reply) IN
          /\ replies' = [replies EXCEPT ![c] = Append(@, reply)]
          /\ err' = [err EXCEPT ![c] = r.err]
          /\ ch' = [ch EXCEPT ![c] = @ \o r.sent]
          /\ pc' = [pc EXCEPT ![c] = "up"]
    /\ UNCHANGED <<described, descCh, e, newErr, client, calls, opened, closed>>

\* Collect without the return after the failure branch: up = 0 is followed
\* by up = 1.
UpMetricsFallThrough(callErr) ==
    IF callErr # "nil"
    THEN << MustNewConstMetric(e.openvpnUpDesc, GaugeValue, 0),
            MustNewConstMetric(e.openvpnUpDesc, GaugeValue, 1) >>
    ELSE << MustNewConstMetric(e.openvpnUpDesc, GaugeValue, 1) >>

\* Collect reporting up = 1 when the response merely failed to decode.
UpMetricsDecodeErrorUp(callErr) ==
    IF callErr \notin {"nil", "DecodeError"}
    THEN << MustNewConstMetric(e.openvpnUpDesc, GaugeValue, 0) >>
    ELSE << MustNewConstMetric(e.openvpnUpDesc, GaugeValue, 1) >>

\* The up metric Collect sends before it returns: 0.0 in either failure
\* branch, 1.0 when it got that far.
UpMetrics(callErr) ==
    IF callErr # "nil"
    THEN << MustNewConstMetric(e.openvpnUpDesc, GaugeValue, 0) >>
    ELSE << MustNewConstMetric(e.openvpnUpDesc, GaugeValue, 1) >>

SendUp(c) ==
    /\ ~Crashed
    /\ pc[c] = "up"
    /\ ch' = [ch EXCEPT ![c] = @ \o UpMetrics(err[c])]
    /\ pc' = [pc EXCEPT ![c] = "ret"]
    /\ UNCHANGED <<described, descCh, e, newErr, client, err, calls, replies, opened, closed>>

\* A Close written at the end of Collect instead of deferred: the early
\* returns skip it.
CloseAtEnd(c) ==
    /\ ~Crashed
    /\ pc[c] = "ret"
    /\ closed' = [closed EXCEPT ![client[c]] =
                      IF err[c] = "nil" THEN @ + 1 ELSE @]
    /\ pc' = [pc EXCEPT ![c] = "done"]
    /\ UNCHANGED <<described, descCh, e, newErr, client, err, ch, calls, replies, opened>>

\* The client closed before the up metric is sent.
CloseBeforeUp(c) ==
    /\ ~Crashed
    /\ pc[c] = "up"
    /\ closed' = [closed EXCEPT ![client[c]] = @ + 1]
    /\ ch' = [ch EXCEPT ![c] = @ \o UpMetrics(err[c])]
    /\ pc' = [pc EXCEPT ![c] = "done"]
    /\ UNCHANGED <<described, descCh, e, newErr, client, err, calls, replies, opened>>

\* Collect returns: the deferred client.Close() runs.
DeferredClose(c) ==
    /\ ~Crashed
    /\ pc[c] = "ret"
    /\ closed' = [closed EXCEPT ![client[c]] = @ + 1]
    /\ pc' = [pc EXCEPT ![c] = "done"]
    /\ UNCHANGED <<described, descCh, e, newErr, client, err, ch, calls, replies, opened>>

\* Describe sending every descriptor the exporter holds.
DescribeSendsAll ==
    << e.openvpnUpDesc, e.openvpnStatusUpdateTimeDesc,
       e.openvpnSubscriptionStatusUpdateTimeDesc,
       e.openvpnSubscriptionCurrentClientConnections,
       e.openvpnSubscriptionFallbackClientConnections,
       e.openvpnSubscriptionMaximumClientConnections,
       e.openvpnConnectedClientsDesc >>

\* What one Describe call sends on its channel.
DescribeSends == << e.openvpnUpDesc >>

\* Describe building the up descriptor anew and keeping it in the exporter.
DescribeRebuilds ==
    /\ ~Crashed
    /\ e' = [e EXCEPT !.openvpnUpDesc =
                 NewDesc(BuildFQName("openvpnas", "", "up"), "")]
    /\ described' = TRUE
    /\ descCh' = << e'.openvpnUpDesc >>
    /\ UNCHANGED <<newErr, pc, client, err, ch, calls, replies, opened, closed>>

\* Describe, called by the registry at any time, each call with a channel
\* of its own.
Describe ==
    /\ ~Crashed
    /\ described' = TRUE
    /\ descCh' = DescribeSends
    /\ UNCHANGED <<e, newErr, pc, client, err, ch, calls, replies, opened, closed>>

Cycle(c) ==
        \/ Collect(c)
        \/ CallGetVPNSummary(c)
        \/ ReturnGetVPNSummary(c)
        \/ CallGetSubscriptionStatus(c)
        \/ ReturnGetSubscriptionStatus(c)
        \/ SendUp(c)
        \/ DeferredClose(c)

Next ==
    \/ \E c \in Cycles : Cycle(c)
    \/ Describe

Spec == Init /\ [][Next]_vars

\* Every call returns, the sink takes every metric, and a goroutine that can
\* run does run; when a scrape starts is up to the registry.
Fairness ==
    \A c \in Cycles :
        /\ WF_vars(CallGetVPNSummary(c))
        /\ WF_vars(ReturnGetVPNSummary(c))
        /\ WF_vars(CallGetSubscriptionStatus(c))
        /\ WF_vars(ReturnGetSubscriptionStatus(c))
        /\ WF_vars(SendUp(c))
        /\ WF_vars(DeferredClose(c))

FairSpec == Init /\ [][Next]_vars /\ Fairness

----------------------------------------------------------------------------
\* Reading a cycle's channel

IsUp(m) == m.desc = e.openvpnUpDesc

\* The positions of ch[c] that hold an up metric.
UpPositions(c) == {i \in 1..Len(ch[c]) : IsUp(ch[c][i])}

\* The descriptors of the four subscription metrics.
SubscriptionDescs ==
    { e.openvpnSubscriptionStatusUpdateTimeDesc,
      e.openvpnSubscriptionCurrentClientConnections,
      e.openvpnSubscriptionMaximumClientConnections,
      e.openvpnSubscriptionFallbackClientConnections }

\* Collect has sent its last metric (it is returning, or has returned).
Completed(c) == pc[c] \in {"ret", "done"}

\* The outcome of the cycle's calls, as the endpoint answered them.
VPNSummaryFailed(c) ==
    Len(replies[c]) >= 1 /\ replies[c][1].fault # "nil"
VPNSummarySucceeded(c) ==
    Len(replies[c]) >= 1 /\ replies[c][1].fault = "nil"
SubscriptionStatusFailed(c) ==
    VPNSummarySucceeded(c) /\ Len(replies[c]) >= 2 /\ replies[c][2].fault # "nil"
BothSucceeded(c) ==
    VPNSummarySucceeded(c) /\ Len(replies[c]) >= 2 /\ replies[c][2].fault = "nil"

UpSample(v) == MustNewConstMetric(e.openvpnUpDesc, GaugeValue, v)

----------------------------------------------------------------------------
\* C1: every completed cycle, whatever its two calls returned, has sent
\* exactly one up metric, and that metric is the last one on its channel.
C1_OneHealthSampleLast ==
    \A c \in Cycles :
        Completed(c) =>
            /\ Cardinality(UpPositions(c)) = 1
            /\ UpPositions(c) = {Len(ch[c])}

\* Both kinds of cycle have completed: one that failed and one that did not.
C1_Witness ==
    \E c, d \in Cycles :
        /\ pc[c] = "done" /\ err[c] # "nil"
        /\ pc[d] = "done" /\ err[d] = "nil"

\* C2: a cycle whose two calls both succeeded has sent exactly five
\* non-health metrics, the connected-clients one first and then the four
\* subscription ones, followed by one up metric of value 1, sent last.
C2_SuccessfulCycle ==
    \A c \in Cycles :
        (Completed(c) /\ BothSucceeded(c)) =>
            /\ Len(ch[c]) = 6
            /\ \A i \in 1..5 : ~IsUp(ch[c][i])
            /\ ch[c][1].desc = e.openvpnConnectedClientsDesc
            /\ {ch[c][i].desc : i \in 2..5} = SubscriptionDescs
            /\ ch[c][6] = UpSample(1)

C2_Witness ==
    \E c \in Cycles :
        /\ pc[c] = "done" /\ BothSucceeded(c)
        /\ replies[c][1].n_clients = MaxClients
        /\ replies[c][2].current_cc = 3

\* C3: a cycle whose GetVPNSummary failed never calls GetSubscriptionStatus
\* and sends no non-health metric; completed, it has sent one up metric of
\* value 0 and nothing else.
C3_FirstCallFailed ==
    \A c \in Cycles :
        VPNSummaryFailed(c) =>
            /\ calls[c] = <<"GetVPNSummary">>
            /\ \A i \in 1..Len(ch[c]) : IsUp(ch[c][i])
            /\ Completed(c) => ch[c] = <<UpSample(0)>>

\* A cycle that found the endpoint unreachable has returned.
C3_Witness ==
    \E c \in Cycles :
        /\ pc[c] = "done"
        /\ Len(replies[c]) = 1
        /\ replies[c][1].fault = "ConnectionError"

\* C4: a cycle whose GetVPNSummary succeeded and whose GetSubscriptionStatus
\* failed has sent the connected-clients metric, none of the subscription
\* metrics, and then one up metric of value 0.
C4_SecondCallFailed ==
    \A c \in Cycles :
        SubscriptionStatusFailed(c) =>
            /\ \A i \in 1..Len(ch[c]) : ch[c][i].desc \notin SubscriptionDescs
            /\ Completed(c) =>
                  /\ Len(ch[c]) = 2
                  /\ ch[c][1].desc = e.openvpnConnectedClientsDesc
                  /\ ch[c][2] = UpSample(0)

C4_Witness ==
    \E c \in Cycles :
        /\ pc[c] = "done"
        /\ Len(replies[c]) = 2
        /\ replies[c][1].fault = "nil"
        /\ replies[c][2].fault = "RemoteFault"

\* C5: a cycle whose client construction failed does not crash the process,
\* issues no call, and ends having sent up = 0 and nothing else.
C5_ConstructionFailureIsHealthZero ==
    \A c \in Cycles :
        (pc[c] # "idle" /\ client[c] = NoClient) =>
            /\ pc[c] # "panicked"
            /\ calls[c] = <<>>
            /\ Completed(c) => ch[c] = <<UpSample(0)>>

\* C6: a cycle that has got past construction opened exactly one client;
\* that client is open until Collect returns and has been closed exactly
\* once when it has returned, on each of the three exit paths; no cycle that
\* has ended holds an open client.
C6_HandleClosedExactlyOnce ==
    \A c \in Cycles :
        /\ (pc[c] \notin {"idle", "panicked"}) =>
              /\ client[c] # NoClient
              /\ opened[client[c]] = 1
              /\ closed[client[c]] = (IF pc[c] = "done" THEN 1 ELSE 0)
        /\ (pc[c] \in {"done", "panicked"} /\ client[c] # NoClient) =>
              closed[client[c]] = opened[client[c]]

\* One cycle has returned early, from a failed call, and another from the
\* end of Collect; each has closed its client.
C6_Witness ==
    \E c, d \in Cycles :
        /\ pc[c] = "done" /\ closed[client[c]] = 1
        /\ (VPNSummaryFailed(c) \/ SubscriptionStatusFailed(c))
        /\ pc[d] = "done" /\ closed[client[d]] = 1 /\ BothSucceeded(d)

\* The metric names the exporter is documented to emit.
EmittedMetricNames ==
    { "openvpnas_up",
      "openvpnas_status_update_time_seconds",
      "openvpnas_subscription_status_update_time_seconds",
      "openvpnas_subscription_current_client_connections",
      "openvpnas_subscription_fallback_client_connections",
      "openvpnas_subscription_maximum_client_connections",
      "openvpnas_server_connected_clients" }

\* C7: a fully successful cycle has sent a metric under every documented
\* metric name.
C7_EveryListedMetricEmitted ==
    \A c \in Cycles :
        (Completed(c) /\ BothSucceeded(c)) =>
            EmittedMetricNames \subseteq
                {ch[c][i].desc.fqName : i \in 1..Len(ch[c])}

\* C8 (as stated): the registry holds exactly eight descriptors with
\* pairwise distinct names, and construction returns no error.
C8_EightDescriptors ==
    /\ Cardinality(DescFields) = 8
    /\ Cardinality({e[f].fqName : f \in DescFields}) = 8
    /\ newErr = "nil"

\* C8 (amended): the registry holds exactly seven descriptors with pairwise
\* distinct names, and construction returns no error.
C8_SevenDescriptors ==
    /\ Cardinality(DescFields) = 7
    /\ Cardinality({e[f].fqName : f \in DescFields}) = 7
    /\ newErr = "nil"

\* A cycle has run to its end on the constructed registry, every metric it
\* sent carrying one of the registry's descriptors.
C8_Witness ==
    \E c \in Cycles :
        /\ pc[c] = "done" /\ Len(ch[c]) = 6
        /\ {ch[c][i].desc : i \in 1..6} \subseteq {e[f] : f \in DescFields}

\* C9: two successful cycles that got the same answers from the endpoint
\* have sent the same metrics, with the same values in the same order.
C9_RepeatedCycleIdentical ==
    \A c, d \in Cycles :
        ( /\ Completed(c) /\ BothSucceeded(c)
          /\ Completed(d) /\ BothSucceeded(d)
          /\ replies[c] = replies[d] ) => ch[c] = ch[d]

C9_Witness ==
    \E c, d \in Cycles :
        /\ c # d
        /\ pc[c] = "done" /\ BothSucceeded(c)
        /\ pc[d] = "done" /\ BothSucceeded(d)
        /\ replies[c] = replies[d]
        /\ replies[c][1].n_clients = MaxClients

\* What a cycle sends when it runs alone and the endpoint answers rs.
AloneRun(rs) ==
    IF rs[1].fault # "nil" THEN <<UpSample(0)>>
    ELSE << MustNewConstMetric(e.openvpnConnectedClientsDesc, GaugeValue,
                               rs[1].n_clients) >>
         \o (IF rs[2].fault # "nil" THEN <<UpSample(0)>>
             ELSE << MustNewConstMetric(e.openvpnSubscriptionStatusUpdateTimeDesc,
                         GaugeValue, rs[2].last_successful_update),
                     MustNewConstMetric(e.openvpnSubscriptionCurrentClientConnections,
                         GaugeValue, rs[2].current_cc),
                     MustNewConstMetric(e.openvpnSubscriptionMaximumClientConnections,
                         GaugeValue, rs[2].max_cc),
                     MustNewConstMetric(e.openvpnSubscriptionFallbackClientConnections,
                         GaugeValue, rs[2].fallback_cc),
                     UpSample(1) >>)

\* C10: under every interleaving of the cycles, no two cycles hold the same
\* client, and what a completed cycle has sent is what it sends when it runs
\* alone and gets the same answers.
C10_CyclesIndependent ==
    /\ \A c, d \in Cycles :
          (c # d /\ client[c] # NoClient /\ client[d] # NoClient) =>
              client[c] # client[d]
    /\ \A c \in Cycles : Completed(c) => ch[c] = AloneRun(replies[c])

\* Two cycles overlap, neither has closed its client yet: one has failed
\* and sent up = 0, the other has succeeded and sent up = 1.
C10_Witness ==
    \E c, d \in Cycles :
        /\ pc[c] = "ret" /\ err[c] # "nil"
        /\ pc[d] = "ret" /\ err[d] = "nil"
        /\ closed[client[c]] = 0 /\ closed[client[d]] = 0

----------------------------------------------------------------------------
\* C11: the calls a cycle has issued are a prefix of <GetVPNSummary,
\* GetSubscriptionStatus>, each method at most once, and
\* GetSubscriptionStatus only once GetVPNSummary has returned successfully.
C11_CallsInOrderOnce ==
    \A c \in Cycles :
        /\ calls[c] \in { <<>>, <<"GetVPNSummary">>,
                          <<"GetVPNSummary", "GetSubscriptionStatus">> }
        /\ Len(calls[c]) = 2 => VPNSummarySucceeded(c)
        /\ Len(replies[c]) <= Len(calls[c])

\* One cycle stopped after a failed first call, another issued both.
C11_Witness ==
    \E c, d \in Cycles :
        /\ pc[c] = "done" /\ VPNSummaryFailed(c) /\ Len(calls[c]) = 1
        /\ pc[d] = "wait2" /\ Len(calls[d]) = 2

\* The descriptors of the metrics on a cycle's channel, in order.
DescsOf(c) == [i \in 1..Len(ch[c]) |-> ch[c][i].desc]

\* C12: once GetSubscriptionStatus has succeeded the channel holds
\* connected-clients, then status-update-time, current, maximum and fallback
\* connections in that order, and the up metric comes after them.
C12_SubscriptionOrder ==
    \A c \in Cycles :
        BothSucceeded(c) =>
            /\ Len(ch[c]) >= 5
            /\ SubSeq(DescsOf(c), 1, 5) =
                  << e.openvpnConnectedClientsDesc,
                     e.openvpnSubscriptionStatusUpdateTimeDesc,
                     e.openvpnSubscriptionCurrentClientConnections,
                     e.openvpnSubscriptionMaximumClientConnections,
                     e.openvpnSubscriptionFallbackClientConnections >>
            /\ UpPositions(c) \subseteq {6}
            /\ Completed(c) => UpPositions(c) = {6}

\* The four are on the channel and the up metric is not yet.
C12_Witness ==
    \E c \in Cycles :
        /\ pc[c] = "up" /\ BothSucceeded(c) /\ Len(ch[c]) = 5
        /\ replies[c][2].max_cc # replies[c][2].fallback_cc

\* The value the metric under descriptor d carries on c's channel.
ValuesUnder(c, d) == {ch[c][i].value : i \in {j \in 1..Len(ch[c]) : ch[c][j].desc = d}}

\* C13: every metric is a gauge, and each decoded field is sent unchanged
\* under its own descriptor.
C13_FieldsUnderOwnDescriptor ==
    \A c \in Cycles :
        /\ \A i \in 1..Len(ch[c]) : ch[c][i].valueType = "GaugeValue"
        /\ VPNSummarySucceeded(c) =>
              ValuesUnder(c, e.openvpnConnectedClientsDesc) = {replies[c][1].n_clients}
        /\ BothSucceeded(c) =>
              /\ ValuesUnder(c, e.openvpnSubscriptionStatusUpdateTimeDesc)
                    = {replies[c][2].last_successful_update}
              /\ ValuesUnder(c, e.openvpnSubscriptionCurrentClientConnections)
                    = {replies[c][2].current_cc}
              /\ ValuesUnder(c, e.openvpnSubscriptionMaximumClientConnections)
                    = {replies[c][2].max_cc}
              /\ ValuesUnder(c, e.openvpnSubscriptionFallbackClientConnections)
                    = {replies[c][2].fallback_cc}

\* The documented scenario: n_clients = 7, current_cc = 3, max_cc = 10,
\* fallback_cc = 0, last_successful_update = 1700000000.
C13_Witness ==
    \E c \in Cycles :
        /\ pc[c] = "done"
        /\ [i \in 1..Len(ch[c]) |-> ch[c][i].value] = <<7, 1700000000, 3, 10, 0, 1>>

\* Two reply sequences that differ at most in the kind of the errors.
SameButErrorKind(r1, r2) ==
    /\ Len(r1) = Len(r2)
    /\ \A i \in 1..Len(r1) :
          IF r1[i].fault = "nil" THEN r2[i] = r1[i] ELSE r2[i].fault # "nil"

\* C14: two completed cycles whose failing call differs only in the kind of
\* its error have issued the same calls and sent the same metrics, ending
\* with up = 0.
C14_ErrorKindsAlike ==
    \A c, d \in Cycles :
        ( /\ Completed(c) /\ Completed(d)
          /\ VPNSummaryFailed(c) \/ SubscriptionStatusFailed(c)
          /\ SameButErrorKind(replies[c], replies[d]) ) =>
            /\ calls[c] = calls[d]
            /\ ch[c] = ch[d]
            /\ ch[c][Len(ch[c])] = UpSample(0)

C14_Witness ==
    \E c, d \in Cycles :
        /\ pc[c] = "done" /\ pc[d] = "done"
        /\ SubscriptionStatusFailed(c) /\ SubscriptionStatusFailed(d)
        /\ replies[c][1] = replies[d][1]
        /\ replies[c][2].fault = "DecodeError"
        /\ replies[d][2].fault = "ConnectionError"

\* C15: when every call returns and the sink takes every metric, every
\* cycle that has started eventually has returned with its client closed.
C15_StartedCycleCloses ==
    \A c \in Cycles : (pc[c] # "idle") ~> (pc[c] = "done")

\* C16: no step, of Collect, Describe or the two collectors, on any path,
\* changes the exporter: its path and its descriptors stay what the
\* constructor made them.
C16_ExporterUnchanged ==
    [][e' = e /\ newErr' = newErr]_vars

\* Describe has run, and cycles have ended on a failure and on success.
C16_Witness ==
    /\ described
    /\ \E c, d \in Cycles :
          /\ pc[c] = "done" /\ err[c] # "nil"
          /\ pc[d] = "done" /\ BothSucceeded(d)
    /\ e = NewOpenVPNExporter(e.xmlrpcPath).exporter

\* C17: a cycle's client is closed only once its up metric is on the
\* channel, and a cycle whose client is closed issues no call and sends no
\* metric.
C17_ClosedLast ==
    [][\A c \in Cycles :
          client[c] # NoClient =>
             /\ closed'[client[c]] > closed[client[c]] => UpPositions(c) # {}
             /\ closed[client[c]] > 0 =>
                   calls'[c] = calls[c] /\ ch'[c] = ch[c]]_vars

\* A cycle has closed its client while another is still to send.
C17_Witness ==
    \E c, d \in Cycles :
        /\ pc[c] = "done" /\ closed[client[c]] = 1 /\ Len(ch[c]) = 6
        /\ pc[d] = "wait2"

\* C18: a Describe call sends the up descriptor and nothing else, so no
\* descriptor of a non-health metric sent by Collect was ever described.
C18_DescribeOnlyUp ==
    /\ descCh = (IF described THEN << e.openvpnUpDesc >> ELSE <<>>)
    /\ \A f \in DescFields \ {"openvpnUpDesc"} :
          \A k \in 1..Len(descCh) : descCh[k] # e[f]
    /\ \A c \in Cycles : \A i \in 1..Len(ch[c]) :
          ~IsUp(ch[c][i]) => \A k \in 1..Len(descCh) : descCh[k] # ch[c][i].desc

\* Describe has run and a cycle has sent its five non-health metrics.
C18_Witness ==
    /\ described
    /\ \E c \in Cycles : pc[c] = "done" /\ Len(ch[c]) = 6

====
